---- MODULE Spec2Model ----
(***************************************************************************)
(* Turn resolution of the roguelike: GameState (src/src/game.rs) driven by  *)
(* AppData::handle_input (src/src/app.rs).  World, VisibilityGrid and Agent *)
(* live in world.rs, visibility.rs and behavior.rs; the operators that      *)
(* stand for them follow the design document and are marked as such.        *)
(***************************************************************************)
EXTENDS Integers, Sequences, FiniteSets, TLC

(* ------------------------------ bounds --------------------------------- *)
\* Deepest dungeon level the exploration descends to.
MaxLevel == 2
\* Most messages appended to the log since the exploration started (an operation
\* that would exceed it is not taken).
MaxLog == 2
\* Most refusals (messages of a request the world refused) explored in one log.
MaxRefusals == 1
\* Dungeon generation: the side of the smallest room and the sides of the
\* largest (5, 10 and 8 in the program), the number of placement attempts (100
\* in the program) and the sides of the largest map generated.
MinRoomSide == 2
MaxRoomWidth == 3
MaxRoomHeight == 3
NUM_ATTEMPTS == 3
MaxMapWidth == 5
MaxMapHeight == 5
\* the kinds of item generated (7 in the program)
MaxItemKinds == 2
\* Weighted selection: the longest list and the largest weight of an entry.
MaxEntries == 3
MaxWeight == 2

(* --------------------------- small helpers ----------------------------- *)
None == "None"

Range(s) == {s[i] : i \in 1..Len(s)}

IsPrefix(s, t) == /\ Len(s) <= Len(t)
                  /\ \A i \in 1..Len(s) : s[i] = t[i]

\* SelectSeq with the predicate written inline
RECURSIVE Without(_, _)
Without(s, dead) ==
  IF s = <<>> THEN <<>>
  ELSE IF Head(s) \in dead THEN Without(Tail(s), dead)
       ELSE <<Head(s)>> \o Without(Tail(s), dead)

Sign(n) == IF n > 0 THEN 1 ELSE IF n < 0 THEN -1 ELSE 0
Abs(n) == IF n < 0 THEN -n ELSE n

(* ------------------------------ the grid ------------------------------- *)
\* the cells of the world (main.rs asks for 40x30; the levels modelled are 3x2)
Coords == (0..2) \X (0..1)
is_valid(c) == c \in Coords

CardinalDirection == {"North", "South", "East", "West"}
direction_coord(d) ==
  CASE d = "North" -> <<0, -1>>
    [] d = "South" -> <<0, 1>>
    [] d = "East"  -> <<1, 0>>
    [] d = "West"  -> <<-1, 0>>
Add(c, d) == <<c[1] + d[1], c[2] + d[2]>>

(* ------------------------------ entities ------------------------------- *)
\* An entity is <<level it was created on, index>>; index 0 is the player.
Player(level) == <<level, 0>>
ItemUsage == {"Immediate", "Aim"}
item_usage(item) == IF item = "HealthPotion" THEN "Immediate" ELSE "Aim"
InventoryCapacity == 2
\* weight of an Orc in the distribution of NPC kinds
OrcWeight == 20
LevelUp == {"Strength", "Dexterity", "Intelligence", "Health"}


(* ------------------- World (world.rs, from the design) ------------------ *)
Character(kind, coord, hp) ==
  [kind |-> kind, coord |-> coord, hp |-> hp, max_hp |-> hp,
   strength |-> 1, dexterity |-> 1, intelligence |-> 1]

\* World::populate: the generated level, one tile to a cell.  What is
\* generated depends on the random stream, which is named by its seed.
\* Seed 1, levels 1, 2 and deeper:         Seed 2, levels 1, 2 and deeper:
\*     ? @ !      @ ! o      @ > #           @ . T      @ . >      @ > #
\*     # # >      # # #      # # #           o # >      . # o      # # o
\* @ player  o orc  T troll  ? fireball scroll  ! potion  # wall  > stairs
\* (the orc of seed 1, level 2 stands on the stairs)
\* Either NPC has one hit point, the player two.
Seeds == {1, 2}
populate(level, rng) ==
  LET npc(i) == <<level, i>>
      player(coord) == Player(level) :> Character("Player", coord, 2)
      layout ==
        IF rng = 1
        THEN IF level = 1
             THEN [chars |-> player(<<1, 0>>), agents |-> <<>>,
                   walls |-> {<<0, 1>>, <<1, 1>>}, stairs |-> {<<2, 1>>},
                   scroll |-> {<<0, 0>>}, potion |-> {<<2, 0>>}]
             ELSE IF level = 2
             THEN [chars |-> player(<<0, 0>>)
                             @@ (npc(1) :> Character("Orc", <<2, 0>>, 1)),
                   agents |-> <<npc(1)>>,
                   walls |-> {<<0, 1>>, <<1, 1>>, <<2, 1>>}, stairs |-> {<<2, 0>>},
                   scroll |-> {}, potion |-> {<<1, 0>>}]
             ELSE [chars |-> player(<<0, 0>>), agents |-> <<>>,
                   walls |-> {<<2, 0>>, <<0, 1>>, <<1, 1>>, <<2, 1>>},
                   stairs |-> {<<1, 0>>}, scroll |-> {}, potion |-> {}]
        ELSE IF level = 1
             THEN [chars |-> player(<<0, 0>>)
                             @@ (npc(1) :> Character("Orc", <<0, 1>>, 1))
                             @@ (npc(2) :> Character("Troll", <<2, 0>>, 1)),
                   agents |-> <<npc(1), npc(2)>>,
                   walls |-> {<<1, 1>>}, stairs |-> {<<2, 1>>},
                   scroll |-> {}, potion |-> {}]
             ELSE IF level = 2
             THEN [chars |-> player(<<0, 0>>)
                             @@ (npc(1) :> Character("Orc", <<2, 1>>, 1)),
                   agents |-> <<npc(1)>>,
                   walls |-> {<<1, 1>>}, stairs |-> {<<2, 0>>},
                   scroll |-> {}, potion |-> {}]
             ELSE [chars |-> player(<<0, 0>>)
                             @@ (npc(1) :> Character("Orc", <<2, 1>>, 1)),
                   agents |-> <<npc(1)>>,
                   walls |-> {<<2, 0>>, <<0, 1>>, <<1, 1>>}, stairs |-> {<<1, 0>>},
                   scroll |-> {}, potion |-> {}]
  IN [world |-> [walls |-> layout.walls,
                 stairs |-> layout.stairs,
                 chars |-> layout.chars,
                 items |-> [c \in Coords |-> IF c \in layout.scroll THEN "FireballScroll"
                                             ELSE IF c \in layout.potion THEN "HealthPotion"
                                             ELSE None],
                 inventory |-> [i \in 1..InventoryCapacity |-> None],
                 projectiles |-> {}],
      player_entity |-> Player(level),
      ai_state |-> layout.agents]

is_living_character(world, entity) ==
  /\ entity \in DOMAIN world.chars
  /\ world.chars[entity].hp > 0

has_projectiles(world) == world.projectiles # {}

coord_contains_stairs(world, coord) == coord \in world.stairs

\* the living characters standing on a cell (none or one: the Character layer)
characters_at(world, coord) ==
  {e \in DOMAIN world.chars : world.chars[e].hp > 0 /\ world.chars[e].coord = coord}

\* one draw of the random stream: 1 the blow lands, 0 the defender dodges
Draws == {0, 1}
draw(s) == IF s.draws = <<>> THEN 1 ELSE Head(s.draws)
after_draw(s) == [s EXCEPT !.draws = IF @ = <<>> THEN <<>> ELSE Tail(@)]

\* World::character_bump_attack with the messages of maybe_move_character
bump_attack(s, attacker, victim) ==
  LET by_player == (s.world.chars[attacker].kind = "Player")
      hit == (draw(s) = 1)
      hp == s.world.chars[victim].hp - 1
      s1 == after_draw(s)
  IN IF ~hit
     THEN [s1 EXCEPT !.message_log =
             Append(@, IF by_player THEN "NpcDodges" ELSE "PlayerDodges")]
     ELSE [s1 EXCEPT !.world.chars[victim].hp = hp,
                     !.message_log =
             Append(@, IF hp > 0
                       THEN (IF by_player THEN "PlayerAttacksNpc" ELSE "NpcAttacksPlayer")
                       ELSE (IF by_player THEN "PlayerKillsNpc" ELSE "NpcKillsPlayer"))]

\* World::maybe_move_character: combat against a living character of the other
\* side, nothing at a wall or off the map, relocation otherwise.  No result.
maybe_move_character(s, entity, direction) ==
  LET dest == Add(s.world.chars[entity].coord, direction_coord(direction))
      there == characters_at(s.world, dest)
  IN IF ~is_valid(dest) THEN s
     ELSE IF there # {}
          THEN LET victim == CHOOSE e \in there : TRUE
               IN IF (s.world.chars[entity].kind = "Player")
                       # (s.world.chars[victim].kind = "Player")
                  THEN bump_attack(s, entity, victim)
                  ELSE s
          ELSE IF dest \in s.world.walls THEN s
               ELSE [s EXCEPT !.world.chars[entity].coord = dest]

\* whether a move of the entity is refused: a wall or the edge of the map
move_is_blocked(world, entity, direction) ==
  LET dest == Add(world.chars[entity].coord, direction_coord(direction))
  IN ~is_valid(dest) \/ (dest \in world.walls /\ characters_at(world, dest) = {})

\* World::maybe_get_item: the item under the character goes to the first free slot
first_free_slot(inventory) ==
  LET free == {i \in DOMAIN inventory : inventory[i] = None}
  IN IF free = {} THEN 0 ELSE CHOOSE i \in free : \A j \in free : i <= j

maybe_get_item(s, entity) ==
  LET coord == s.world.chars[entity].coord
      item == s.world.items[coord]
      slot == first_free_slot(s.world.inventory)
  IN IF item = None
     THEN [s EXCEPT !.message_log = Append(@, "NoItemUnderPlayer"), !.result = "Err"]
     ELSE IF slot = 0
          THEN [s EXCEPT !.message_log = Append(@, "PlayerInventoryIsFull"),
                         !.result = "Err"]
          ELSE [s EXCEPT !.world.items[coord] = None,
                         !.world.inventory[slot] = item,
                         !.message_log = Append(@, "PlayerGets"),
                         !.result = "Ok"]

\* the item in a slot (usize index, 0-based), None when empty or out of range
inventory_get(inventory, inventory_index) ==
  IF inventory_index + 1 \in DOMAIN inventory THEN inventory[inventory_index + 1] ELSE None

\* World::maybe_use_item: a potion heals at once, a scroll asks for a target
maybe_use_item(s, entity, inventory_index) ==
  LET item == inventory_get(s.world.inventory, inventory_index)
  IN IF item = None
     THEN [s EXCEPT !.message_log = Append(@, "NoItemInInventorySlot"), !.result = "Err"]
     ELSE IF item_usage(item) = "Immediate"
          THEN [s EXCEPT !.world.inventory[inventory_index + 1] = None,
                         !.world.chars[entity].hp = s.world.chars[entity].max_hp,
                         !.message_log = Append(@, "PlayerHeals"),
                         !.result = "Immediate"]
          ELSE [s EXCEPT !.result = "Aim"]

\* World::maybe_use_item_aim: the scroll is spent and a projectile leaves the
\* character's cell for the target
maybe_use_item_aim(s, entity, inventory_index, target) ==
  LET item == inventory_get(s.world.inventory, inventory_index)
  IN IF item = None
     THEN [s EXCEPT !.message_log = Append(@, "NoItemInInventorySlot"), !.result = "Err"]
     ELSE [s EXCEPT !.world.inventory[inventory_index + 1] = None,
                    !.world.projectiles =
                       @ \cup {[coord |-> s.world.chars[entity].coord, target |-> target]},
                    !.message_log = Append(@, "PlayerLaunchesProjectile"),
                    !.result = "Ok"]

\* World::maybe_drop_item: the item is put down under the character when
\* no item lies there already
maybe_drop_item(s, entity, inventory_index) ==
  LET item == inventory_get(s.world.inventory, inventory_index)
      coord == s.world.chars[entity].coord
  IN IF item = None
     THEN [s EXCEPT !.message_log = Append(@, "NoItemInInventorySlot"), !.result = "Err"]
     ELSE IF s.world.items[coord] # None
          THEN [s EXCEPT !.message_log = Append(@, "NoSpaceToDropItem"), !.result = "Err"]
          ELSE [s EXCEPT !.world.inventory[inventory_index + 1] = None,
                         !.world.items[coord] = item,
                         !.message_log = Append(@, "PlayerDrops"),
                         !.result = "Ok"]


\* World::move_projectiles: every projectile advances one cell towards its
\* target; it ends at a wall, at its target, or on the first living NPC, which
\* it wounds
projectile_step(s, p) ==
  LET next == <<p.coord[1] + Sign(p.target[1] - p.coord[1]),
                p.coord[2] + Sign(p.target[2] - p.coord[2])>>
      gone == [s EXCEPT !.world.projectiles = @ \ {p}]
      hit == {e \in characters_at(s.world, next) : s.world.chars[e].kind # "Player"}
  IN IF p.coord = p.target \/ next \in s.world.walls THEN gone
     ELSE IF hit # {}
          THEN LET victim == CHOOSE e \in hit : TRUE
                   hp == s.world.chars[victim].hp - 1
               IN [gone EXCEPT !.world.chars[victim].hp = hp,
                               !.message_log = IF hp > 0 THEN @ ELSE Append(@, "NpcDies")]
          ELSE IF next = p.target THEN gone
               ELSE [gone EXCEPT !.world.projectiles = @ \cup {[p EXCEPT !.coord = next]}]

RECURSIVE move_each(_, _)
move_each(s, todo) ==
  IF todo = {} THEN s
  ELSE LET p == CHOOSE q \in todo : TRUE
       IN move_each(projectile_step(s, p), todo \ {p})

move_projectiles(s) == move_each(s, s.world.projectiles)

\* World::level_up_character
level_up_character(world, entity, level_up) ==
  CASE level_up = "Strength"     -> [world EXCEPT !.chars[entity].strength = @ + 1]
    [] level_up = "Dexterity"    -> [world EXCEPT !.chars[entity].dexterity = @ + 1]
    [] level_up = "Intelligence" -> [world EXCEPT !.chars[entity].intelligence = @ + 1]
    [] level_up = "Health"       -> [world EXCEPT !.chars[entity].max_hp = @ + 1]

\* World::remove_character: the character's components and what it carries
remove_character(world, entity) ==
  [stats |-> world.chars[entity], inventory |-> world.inventory]

\* World::replace_character: the captured components on the new entity, which
\* keeps the place the new level gave it
replace_character(world, entity, data) ==
  [world EXCEPT !.chars[entity] = [data.stats EXCEPT !.coord = world.chars[entity].coord],
                !.inventory = data.inventory]

(* ---------------- VisibilityGrid (visibility.rs, from the design) ------- *)
CellVisibility == {"Currently", "Previously", "Never"}
VisibilityAlgorithm == {"Shadowcast", "Omniscient"}

visibility_new == [c \in Coords |-> "Never"]
visibility_clear(grid) == [c \in Coords |-> "Never"]

\* a straight line of sight: at every step between the two cells, one of the
\* cells the line touches is not a wall
line_of_sight(world, from, to) ==
  LET dx == to[1] - from[1]
      dy == to[2] - from[2]
      n == IF Abs(dx) > Abs(dy) THEN Abs(dx) ELSE Abs(dy)
      touched(k) == {c \in Coords :
                       /\ c[1] \in {(from[1] * n + dx * k) \div n,
                                    (from[1] * n + dx * k + n - 1) \div n}
                       /\ c[2] \in {(from[2] * n + dy * k) \div n,
                                    (from[2] * n + dy * k + n - 1) \div n}}
  IN \A k \in 1..(n - 1) : touched(k) \ world.walls # {}

visible_cells(world, origin, algorithm) ==
  IF algorithm = "Omniscient" THEN Coords
  ELSE {c \in Coords : line_of_sight(world, origin, c)}

\* VisibilityGrid::update: the swept cells are Currently, cells seen before
\* fall back to Previously, the others stay Never
visibility_update(grid, origin, world, algorithm) ==
  LET seen == visible_cells(world, origin, algorithm)
  IN [c \in Coords |-> IF c \in seen THEN "Currently"
                       ELSE IF grid[c] = "Never" THEN "Never" ELSE "Previously"]

(* ------------------- Agent (behavior.rs, from the design) --------------- *)
\* Agent::act: Wait, or one step towards the player (along the row first,
\* then along the column, never into a wall).  Whether the agent waits depends
\* on state of the agent that is not modelled: it is an input.
chase(world, entity, player_entity) ==
  LET me == world.chars[entity].coord
      to == world.chars[player_entity].coord
      h == IF to[1] > me[1] THEN "East" ELSE "West"
      v == IF to[2] > me[2] THEN "South" ELSE "North"
      open(d) == LET c == Add(me, direction_coord(d))
                 IN is_valid(c) /\ c \notin world.walls
  IN IF to[1] # me[1] /\ open(h) THEN h
     ELSE IF to[2] # me[2] /\ open(v) THEN v
     ELSE "Wait"

act(s, entity) ==
  IF s.will = <<>> \/ ~Head(s.will) THEN "Wait"
  ELSE chase(s.world, entity, s.player_entity)


(* --------------------------- GameState (game.rs) ------------------------ *)
\* What one operation did, in order: the AI phases it ran, the agents it asked
\* for an action, the visibility refreshes; `at` is the length of the message
\* log at that moment and `alive` whether `who` was a living character then.
NoEntity == <<0, 0>>
Event(s, ev, who) ==
  [s EXCEPT !.trace = Append(@, [ev |-> ev, who |-> who,
                                 at |-> Len(s.message_log),
                                 alive |-> is_living_character(s.world, who)])]

\* The calls one operation made to Agent::act and World::maybe_move_character,
\* in order: who was asked or moved, and the action answered or the direction.
Call(s, op, who, action) ==
  [s EXCEPT !.calls = Append(@, [op |-> op, who |-> who, action |-> action])]

player_coord(s) == s.world.chars[s.player_entity].coord

is_player_alive(s) == is_living_character(s.world, s.player_entity)

is_player_on_stairs(s) == coord_contains_stairs(s.world, player_coord(s))

has_animations(s) == has_projectiles(s.world)

tick_animations(s) == move_projectiles(s)

update_visibility(s, visibility_algorithm) ==
  Event([s EXCEPT !.visibility_grid =
            visibility_update(@, player_coord(s), s.world, visibility_algorithm)],
        "update_visibility", NoEntity)

\* a mutant: the loop runs over the agent table from its end
RECURSIVE agents_act_backwards(_, _)
agents_act_backwards(s, agents) ==
  IF agents = <<>> THEN s
  ELSE LET entity == agents[Len(agents)]
           npc_action == act(s, entity)
           asked == Call(Event([s EXCEPT !.will = IF @ = <<>> THEN <<>> ELSE Tail(@)],
                               "act", entity),
                         "act", entity, npc_action)
       IN agents_act_backwards(IF npc_action = "Wait" THEN asked
                               ELSE maybe_move_character(
                                      Call(asked, "maybe_move_character", entity, npc_action),
                                      entity, npc_action),
                               SubSeq(agents, 1, Len(agents) - 1))

\* the loop of ai_turn over the agent table, in table order
RECURSIVE agents_act(_, _)
agents_act(s, agents) ==
  IF agents = <<>> THEN s
  ELSE LET entity == Head(agents)
           npc_action == act(s, entity)
           asked == Call(Event([s EXCEPT !.will = IF @ = <<>> THEN <<>> ELSE Tail(@)],
                               "act", entity),
                         "act", entity, npc_action)
       IN agents_act(IF npc_action = "Wait" THEN asked
                     ELSE maybe_move_character(
                            Call(asked, "maybe_move_character", entity, npc_action),
                            entity, npc_action),
                     Tail(agents))

\* a mutant: the agents of dead entities stay in the table
ai_turn_unpruned(s) == agents_act(Event(s, "ai_turn", NoEntity), s.ai_state)

ai_turn(s) ==
  LET started == Event(s, "ai_turn", NoEntity)
      dead_entities == {e \in Range(s.ai_state) : ~is_living_character(s.world, e)}
      pruned == [started EXCEPT !.ai_state = Without(@, dead_entities)]
  IN agents_act(pruned, pruned.ai_state)

\* a mutant: the agents answer the request before the player's move is applied
maybe_move_player_after_ai(s, direction) ==
  IF has_animations(s) THEN [s EXCEPT !.result = "Unit"]
  ELSE maybe_move_character(ai_turn([s EXCEPT !.result = "Unit"]),
                            s.player_entity, direction)

maybe_move_player(s, direction) ==
  IF has_animations(s) THEN [s EXCEPT !.result = "Unit"]
  ELSE ai_turn([maybe_move_character(
                   Call(s, "maybe_move_character", s.player_entity, direction),
                   s.player_entity, direction)
                  EXCEPT !.result = "Unit"])

\* a mutant: the AI phase runs whether or not an item was picked up
maybe_player_get_item_always_turn(s) ==
  IF has_animations(s) THEN [s EXCEPT !.result = "Unit"]
  ELSE ai_turn([maybe_get_item(s, s.player_entity) EXCEPT !.result = "Unit"])

\* the result of World::maybe_get_item decides the turn and is then dropped
maybe_player_get_item(s) ==
  IF has_animations(s) THEN [s EXCEPT !.result = "Unit"]
  ELSE LET got == maybe_get_item(s, s.player_entity)
       IN IF got.result = "Ok" THEN ai_turn([got EXCEPT !.result = "Unit"])
          ELSE [got EXCEPT !.result = "Unit"]

\* a mutant: an item that asks for a target consumes the turn as well
maybe_player_use_item_aim_turns(s, inventory_index) ==
  IF has_animations(s) THEN [s EXCEPT !.result = "Err"]
  ELSE LET used == maybe_use_item(s, s.player_entity, inventory_index)
       IN IF used.result # "Err" THEN ai_turn(used) ELSE used

maybe_player_use_item(s, inventory_index) ==
  IF has_animations(s) THEN [s EXCEPT !.result = "Err"]
  ELSE LET used == maybe_use_item(s, s.player_entity, inventory_index)
       IN IF used.result = "Immediate" THEN ai_turn(used) ELSE used

\* a mutant: a launched item is followed by an AI phase
maybe_player_use_item_aim_takes_turn(s, inventory_index, target) ==
  LET aimed == maybe_use_item_aim(s, s.player_entity, inventory_index, target)
  IN IF aimed.result = "Ok" THEN ai_turn(aimed) ELSE aimed

maybe_player_use_item_aim(s, inventory_index, target) ==
  maybe_use_item_aim(s, s.player_entity, inventory_index, target)

maybe_player_drop_item(s, inventory_index) ==
  LET dropped == maybe_drop_item(s, s.player_entity, inventory_index)
  IN IF dropped.result = "Ok" THEN ai_turn(dropped) ELSE dropped

\* a mutant: waiting runs no AI phase
wait_player_idle(s) == [s EXCEPT !.result = "Unit"]

wait_player(s) ==
  IF has_animations(s) THEN [s EXCEPT !.result = "Unit"]
  ELSE ai_turn([s EXCEPT !.result = "Unit"])

\* mutants: the level transition keeps the visibility grid, empties the message
\* log, keeps the agent table of the level left
descend_keeps_grid(s, level_up) ==
  LET player_data == remove_character(level_up_character(s.world, s.player_entity,
                                                         level_up), s.player_entity)
      populated == populate(s.dungeon_level + 1, s.rng)
  IN [s EXCEPT !.world = replace_character(populated.world, populated.player_entity,
                                           player_data),
               !.dungeon_level = @ + 1,
               !.player_entity = populated.player_entity,
               !.ai_state = populated.ai_state,
               !.result = "Unit"]

descend_clears_log(s, level_up) ==
  [descend_keeps_grid(s, level_up) EXCEPT !.visibility_grid = visibility_clear(@),
                                          !.message_log = <<>>]

descend_keeps_agents(s, level_up) ==
  [descend_keeps_grid(s, level_up) EXCEPT !.visibility_grid = visibility_clear(@),
                                          !.ai_state = s.ai_state]

player_level_up_and_descend(s, level_up) ==
  LET leveled == level_up_character(s.world, s.player_entity, level_up)
      player_data == remove_character(leveled, s.player_entity)
      dungeon_level == s.dungeon_level + 1
      populated == populate(dungeon_level, s.rng)
  IN [s EXCEPT !.world = replace_character(populated.world, populated.player_entity,
                                           player_data),
               !.visibility_grid = visibility_clear(@),
               !.dungeon_level = dungeon_level,
               !.player_entity = populated.player_entity,
               !.ai_state = populated.ai_state,
               !.result = "Unit"]

\* World::examine_cell: what stands or lies on a cell
world_examine_cell(world, coord) ==
  LET here == {e \in DOMAIN world.chars : world.chars[e].coord = coord}
      living == characters_at(world, coord)
  IN IF \E e \in living : world.chars[e].kind = "Player" THEN "Player"
     ELSE IF living # {} THEN "Npc"
     ELSE IF world.items[coord] # None THEN "Item"
     ELSE IF here # {} THEN "NpcCorpse"
     ELSE None

\* a mutant: the description of a cell whatever its visibility
examine_cell_unseen(s, coord) == world_examine_cell(s.world, coord)

examine_cell(s, coord) ==
  IF s.visibility_grid[coord] = "Currently" THEN world_examine_cell(s.world, coord)
  ELSE None

\* GameState::new
GameState_new(rng_seed, visibility_algorithm) ==
  LET populated == populate(1, rng_seed)
  IN update_visibility([world |-> populated.world,
                        player_entity |-> populated.player_entity,
                        visibility_grid |-> visibility_new,
                        ai_state |-> populated.ai_state,
                        message_log |-> <<>>,
                        dungeon_level |-> 1,
                        rng |-> rng_seed,
                        draws |-> <<>>, will |-> <<>>, trace |-> <<>>, calls |-> <<>>, result |-> "Unit"],
                       visibility_algorithm)


(* ---------------------- dungeon generation (terrain.rs) ------------------ *)
NpcType == {"Orc", "Troll"}
ItemType == {"HealthPotion", "FireballScroll", "ConfusionScroll", "Sword", "Staff",
             "Armor", "Robe"}
\* Npc(kind) and Item(kind) are written as the kind; None is an unassigned cell
TerrainTile == {"Player", "Floor", "Wall", "Stairs"} \cup NpcType \cup ItemType

Min(a, b) == IF a < b THEN a ELSE b
Max(a, b) == IF a > b THEN a ELSE b

Size(width, height) == [width |-> width, height |-> height]
GridCoords(size) == (0..(size.width - 1)) \X (0..(size.height - 1))
new_copy(size, tile) == [c \in GridCoords(size) |-> tile]
\* *grid.get_checked_mut(coord) = Some(tile)
set_cell(grid, coord, tile) ==
  [c \in DOMAIN grid |-> IF c = coord THEN tile ELSE grid[c]]

\* the room sizes Room::choose draws from (5..11 by 5..9 on the 40x25 map)
RoomWidths == MinRoomSide..MaxRoomWidth
RoomHeights == MinRoomSide..MaxRoomHeight

\* how many NPCs, how many items a room gets: the entries the code chooses from
NPCS_PER_ROOM_DISTRIBUTION == <<0, 1, 2>>
ITEMS_PER_ROOM_DISTRIBUTION == <<0, 1, 1>>

Entry(value, probability) == [value |-> value, probability |-> probability]

make_npc_probability_distribution(level) ==
  <<Entry("Orc", OrcWeight), Entry("Troll", level)>>

\* the kinds of item a level offers, with their weights
item_probability_distribution(level) ==
  LET item_chance == IF level <= 1 THEN 5 ELSE IF level <= 3 THEN 10 ELSE 20
  IN <<Entry("HealthPotion", 200),
       Entry("FireballScroll", IF level <= 1 THEN 10 ELSE IF level <= 4 THEN 50 ELSE 100),
       Entry("ConfusionScroll", IF level <= 1 THEN 10 ELSE IF level <= 4 THEN 30 ELSE 50),
       Entry("Sword", item_chance), Entry("Staff", item_chance),
       Entry("Armor", item_chance), Entry("Robe", item_chance)>>

\* make_item_probability_distribution, cut to the first MaxItemKinds entries
make_item_probability_distribution(level) ==
  SubSeq(item_probability_distribution(level), 1,
         Min(MaxItemKinds, Len(item_probability_distribution(level))))

RECURSIVE distribution_sum(_)
distribution_sum(probability_distribution) ==
  IF probability_distribution = <<>> THEN 0
  ELSE Head(probability_distribution).probability
         + distribution_sum(Tail(probability_distribution))

\* a mutant: an entry is passed over when the draw equals its weight, not when
\* the draw is at least its weight
RECURSIVE choose_loop_strict(_, _)
choose_loop_strict(probability_distribution, choice) ==
  IF probability_distribution = <<>> THEN "unreachable"
  ELSE LET probability == Head(probability_distribution).probability
       IN IF choice > probability
          THEN choose_loop_strict(Tail(probability_distribution), choice - probability)
          ELSE Head(probability_distribution).value

\* the loop of choose_from_probability_distribution: checked_sub succeeds when
\* the draw is at least the entry's weight
RECURSIVE choose_loop(_, _)
choose_loop(probability_distribution, choice) ==
  IF probability_distribution = <<>> THEN "unreachable"
  ELSE LET probability == Head(probability_distribution).probability
       IN IF choice >= probability
          THEN choose_loop(Tail(probability_distribution), choice - probability)
          ELSE Head(probability_distribution).value

\* choose_from_probability_distribution with the draw of gen_range(0..sum)
choose_from_probability_distribution(probability_distribution, choice) ==
  choose_loop(probability_distribution, choice)

\* a mutant: the upper end of the range is drawn too
RangeDraws_inclusive(low, high) == low..high

\* the values gen_range(low..high) may return; none when the range is empty
RangeDraws(low, high) == low..(high - 1)

\* what the selection may return over all draws ("empty range": it panics)
ChoiceOutcomes(probability_distribution) ==
  LET sum == distribution_sum(probability_distribution)
  IN IF RangeDraws(0, sum) = {} THEN {"empty range"}
     ELSE {choose_from_probability_distribution(probability_distribution, choice) :
             choice \in RangeDraws(0, sum)}

Room(top_left, size) == [top_left |-> top_left, size |-> size]

center(room) ==
  <<room.top_left[1] + room.size.width \div 2, room.top_left[2] + room.size.height \div 2>>

coords(room) ==
  {<<room.top_left[1] + x, room.top_left[2] + y>> :
     x \in 0..(room.size.width - 1), y \in 0..(room.size.height - 1)}

\* get_checked succeeds on the cells of the grid only
in_grid(cells, grid) == cells \subseteq DOMAIN grid

\* a mutant: only the room's top-left cell is looked at
only_intersects_empty_corner(room, grid) == grid[room.top_left] = None

only_intersects_empty(room, grid) == \A coord \in coords(room) : grid[coord] = None

\* a mutant: the bottom row and the right column of the room are Wall
carve_out_bottom_right(room, grid) ==
  [coord \in DOMAIN grid |->
     IF coord \in coords(room)
     THEN (IF coord[1] = room.top_left[1] + room.size.width - 1
              \/ coord[2] = room.top_left[2] + room.size.height - 1
           THEN "Wall" ELSE "Floor")
     ELSE grid[coord]]

\* a mutant: only the top row of the room is Wall
carve_out_top_only(room, grid) ==
  [coord \in DOMAIN grid |->
     IF coord \in coords(room)
     THEN (IF coord[2] = room.top_left[2] THEN "Wall" ELSE "Floor")
     ELSE grid[coord]]

carve_out(room, grid) ==
  [coord \in DOMAIN grid |->
     IF coord \in coords(room)
     THEN (IF coord[1] = room.top_left[1] \/ coord[2] = room.top_left[2]
           THEN "Wall" ELSE "Floor")
     ELSE grid[coord]]

\* a mutant: the run along start's row also leaves its last cell out
corridor_cells_open(start, end) ==
  {<<i, start[2]>> : i \in Min(start[1], end[1])..(Max(start[1], end[1]) - 1)}
    \cup {<<end[1], i>> : i \in Min(start[2], end[2])..(Max(start[2], end[2]) - 1)}

\* the cells carve_corridor visits: start's row between the two columns, both
\* included, then end's column between the two rows, the lower one excluded
corridor_cells(start, end) ==
  {<<i, start[2]>> : i \in Min(start[1], end[1])..Max(start[1], end[1])}
    \cup {<<end[1], i>> : i \in Min(start[2], end[2])..(Max(start[2], end[2]) - 1)}

\* a mutant: every visited cell becomes Floor
carve_corridor_through(start, end, grid) ==
  [coord \in DOMAIN grid |->
     IF coord \in corridor_cells(start, end) THEN "Floor" ELSE grid[coord]]

carve_corridor(start, end, grid) ==
  [coord \in DOMAIN grid |->
     IF coord \in corridor_cells(start, end) /\ grid[coord] \in {None, "Wall"}
     THEN "Floor" ELSE grid[coord]]

\* choose_multiple(rng, n): any n of the cells, all of them when there are fewer
choose_multiple(cells, n) ==
  {chosen \in SUBSET cells : Cardinality(chosen) = Min(n, Cardinality(cells))}

\* Room::place_npcs and Room::place_items: the grids they may leave, over all
\* draws; each chosen Floor cell gets a kind drawn from the distribution
RECURSIVE place_each(_, _, _)
place_each(grids, chosen, kinds) ==
  IF chosen = {} THEN grids
  ELSE LET coord == CHOOSE c \in chosen : TRUE
       IN place_each({set_cell(grid, coord, kind) : grid \in grids, kind \in kinds},
                     chosen \ {coord}, kinds)

\* a mutant: the cells are chosen among all cells of the room that are not Wall
place_anywhere(room, n, probability_distribution, grid) ==
  LET open == {coord \in coords(room) : grid[coord] # "Wall"}
  IN UNION {place_each({grid}, chosen, ChoiceOutcomes(probability_distribution)) :
              chosen \in choose_multiple(open, n)}

place(room, n, probability_distribution, grid) ==
  LET floor == {coord \in coords(room) : grid[coord] = "Floor"}
  IN UNION {place_each({grid}, chosen, ChoiceOutcomes(probability_distribution)) :
              chosen \in choose_multiple(floor, n)}

(* ----------------------------- AppData (app.rs) ------------------------- *)
VARIABLES world, player_entity, visibility_grid, ai_state, message_log, rng,
          dungeon_level,          \* GameState
          app_state, visibility_algorithm,   \* AppData
          last,                   \* what the last operation was and did
          log_start,              \* length of the log where the exploration starts
          gen                     \* a run of generate_dungeon, or a weighted selection

vars == <<world, player_entity, visibility_grid, ai_state, message_log, rng,
          dungeon_level, app_state, visibility_algorithm, last, log_start, gen>>

AppState == {"Game", "UseItem", "DropItem"}

\* keys the application tells apart; "a" and "b" are the hotkeys of the
\* inventory slots
Inputs == {"Left", "Right", "Up", "Down", "Space", "g", "i", "d", "Escape", "a", "b"}

key_direction(input) ==
  CASE input = "Left"  -> "West"
    [] input = "Right" -> "East"
    [] input = "Up"    -> "North"
    [] input = "Down"  -> "South"

\* MenuInstanceChooseOrEscape::choose: the entry of a hotkey, Escape, or nothing
menu_choose(input) ==
  IF input = "Escape" THEN [kind |-> "Escape", index |-> 0]
  ELSE IF input = "a" THEN [kind |-> "Ok", index |-> 0]
  ELSE IF input = "b" THEN [kind |-> "Ok", index |-> 1]
  ELSE [kind |-> "None", index |-> 0]

\* the GameState fields (rng: the stream, named by its seed) plus the inputs an
\* operation consumes (the draws it takes from the stream, the agents'
\* decisions) and what it reports (result, trace)
State(draws, will) ==
  [world |-> world, player_entity |-> player_entity,
   visibility_grid |-> visibility_grid, ai_state |-> ai_state,
   message_log |-> message_log, rng |-> rng, dungeon_level |-> dungeon_level,
   draws |-> draws, will |-> will, trace |-> <<>>, calls |-> <<>>, result |-> "Unit"]

\* the request handle_input issues for an input, "none" when it issues none
request_of(app, input) ==
  IF app = "Game"
  THEN CASE input \in {"Left", "Right", "Up", "Down"} -> "move_player"
         [] input = "Space" -> "wait"
         [] input = "g" -> "get_item"
         [] OTHER -> "none"
  ELSE IF menu_choose(input).kind = "Ok"
       THEN (IF app = "UseItem" THEN "use_item" ELSE "drop_item")
       ELSE "none"

\* a mutant: the input is handled whether or not the player is alive
handle_input_of_the_dead(app, s, input) ==
  IF app = "Game" /\ input = "Escape"
  THEN [app_state |-> app, s |-> s, returned |-> "Exit"]
  ELSE LET choice == menu_choose(input)
           done ==
             IF app = "Game"
             THEN CASE input \in {"Left", "Right", "Up", "Down"} ->
                         [app_state |-> app,
                          s |-> maybe_move_player(s, key_direction(input))]
                    [] input = "Space" -> [app_state |-> app, s |-> wait_player(s)]
                    [] input = "g" ->
                         [app_state |-> app, s |-> maybe_player_get_item(s)]
                    [] input = "i" -> [app_state |-> "UseItem", s |-> s]
                    [] input = "d" -> [app_state |-> "DropItem", s |-> s]
                    [] OTHER -> [app_state |-> app, s |-> s]
             ELSE CASE choice.kind = "None" -> [app_state |-> app, s |-> s]
                    [] choice.kind = "Escape" -> [app_state |-> "Game", s |-> s]
                    [] OTHER ->
                         LET r == IF app = "UseItem"
                                  THEN maybe_player_use_item(s, choice.index)
                                  ELSE maybe_player_drop_item(s, choice.index)
                         IN [app_state |-> IF r.result # "Err" THEN "Game" ELSE app,
                             s |-> r]
       IN [app_state |-> done.app_state,
           s |-> update_visibility(done.s, visibility_algorithm),
           returned |-> "None"]

\* a mutant: the menu closes whether or not the request for the slot succeeds
handle_input_menu_closes(app, s, input) ==
  IF ~is_player_alive(s) THEN [app_state |-> app, s |-> s, returned |-> "None"]
  ELSE IF app = "Game" /\ input = "Escape"
  THEN [app_state |-> app, s |-> s, returned |-> "Exit"]
  ELSE LET choice == menu_choose(input)
           done ==
             IF app = "Game"
             THEN CASE input \in {"Left", "Right", "Up", "Down"} ->
                         [app_state |-> app,
                          s |-> maybe_move_player(s, key_direction(input))]
                    [] input = "Space" -> [app_state |-> app, s |-> wait_player(s)]
                    [] input = "g" ->
                         [app_state |-> app, s |-> maybe_player_get_item(s)]
                    [] input = "i" -> [app_state |-> "UseItem", s |-> s]
                    [] input = "d" -> [app_state |-> "DropItem", s |-> s]
                    [] OTHER -> [app_state |-> app, s |-> s]
             ELSE CASE choice.kind = "None" -> [app_state |-> app, s |-> s]
                    [] choice.kind = "Escape" -> [app_state |-> "Game", s |-> s]
                    [] OTHER ->
                         LET r == IF app = "UseItem"
                                  THEN maybe_player_use_item(s, choice.index)
                                  ELSE maybe_player_drop_item(s, choice.index)
                         IN [app_state |-> "Game",
                             s |-> r]
       IN [app_state |-> done.app_state,
           s |-> update_visibility(done.s, visibility_algorithm),
           returned |-> "None"]

\* AppData::handle_input: [app_state, s, returned]
handle_input(app, s, input) ==
  IF ~is_player_alive(s) THEN [app_state |-> app, s |-> s, returned |-> "None"]
  ELSE IF app = "Game" /\ input = "Escape"
       THEN [app_state |-> app, s |-> s, returned |-> "Exit"]
       ELSE LET choice == menu_choose(input)
                done ==
                  IF app = "Game"
                  THEN CASE input \in {"Left", "Right", "Up", "Down"} ->
                              [app_state |-> app,
                               s |-> maybe_move_player(s, key_direction(input))]
                         [] input = "Space" -> [app_state |-> app, s |-> wait_player(s)]
                         [] input = "g" ->
                              [app_state |-> app, s |-> maybe_player_get_item(s)]
                         [] input = "i" -> [app_state |-> "UseItem", s |-> s]
                         [] input = "d" -> [app_state |-> "DropItem", s |-> s]
                         [] OTHER -> [app_state |-> app, s |-> s]
                  ELSE CASE choice.kind = "None" -> [app_state |-> app, s |-> s]
                         [] choice.kind = "Escape" -> [app_state |-> "Game", s |-> s]
                         [] OTHER ->
                              LET r == IF app = "UseItem"
                                       THEN maybe_player_use_item(s, choice.index)
                                       ELSE maybe_player_drop_item(s, choice.index)
                              IN [app_state |-> IF r.result # "Err" THEN "Game" ELSE app,
                                  s |-> r]
            IN [app_state |-> done.app_state,
                s |-> update_visibility(done.s, visibility_algorithm),
                returned |-> "None"]


(* ------------------------------ the system ------------------------------ *)
RngStreams(n) == [1..n -> Draws]
Decisions(n) == [1..n -> BOOLEAN]

TurnRequests == {"move_player", "wait", "get_item", "use_item", "drop_item"}
Requests == TurnRequests \cup {"use_item_aim"}

\* whether the world refuses the request in the current state
fails_validation(op, direction, inventory_index) ==
  LET here == world.chars[player_entity].coord
  IN CASE op = "move_player" -> move_is_blocked(world, player_entity, direction)
       [] op = "get_item" -> world.items[here] = None
                             \/ first_free_slot(world.inventory) = 0
       [] op \in {"use_item", "use_item_aim"} ->
            inventory_get(world.inventory, inventory_index) = None
       [] op = "drop_item" -> inventory_get(world.inventory, inventory_index) = None
                              \/ world.items[here] # None
       [] OTHER -> FALSE

\* the exploration keeps to logs within the bounds
Refusals == {"NoItemUnderPlayer", "PlayerInventoryIsFull", "NoItemInInventorySlot",
             "NoSpaceToDropItem"}
WithinBounds(s) ==
  /\ Len(s.message_log) <= log_start + MaxLog
  /\ Cardinality({i \in 1..Len(s.message_log) : s.message_log[i] \in Refusals})
       <= MaxRefusals

Commit(s) ==
  /\ world' = s.world
  /\ player_entity' = s.player_entity
  /\ visibility_grid' = s.visibility_grid
  /\ ai_state' = s.ai_state
  /\ message_log' = s.message_log
  /\ rng' = s.rng
  /\ dungeon_level' = s.dungeon_level

\* what the last operation was and did
Last(op, via, refused, usage, choice, s, returned) ==
  [op |-> op, via |-> via,
   alive |-> is_living_character(world, player_entity),
   animating |-> has_projectiles(world),
   refused |-> refused, usage |-> usage, choice |-> choice,
   result |-> s.result, trace |-> s.trace, calls |-> s.calls, returned |-> returned]

\* no generation in progress
NoGen == [pc |-> "none"]

Init ==
  /\ visibility_algorithm = "Shadowcast"
  /\ app_state = "Game"
  /\ log_start = 0
  /\ gen = NoGen
  /\ \E rng_seed \in Seeds :
     \E s \in {GameState_new(rng_seed, visibility_algorithm)} :
        /\ world = s.world
        /\ player_entity = s.player_entity
        /\ visibility_grid = s.visibility_grid
        /\ ai_state = s.ai_state
        /\ message_log = s.message_log
        /\ rng = s.rng
        /\ dungeon_level = s.dungeon_level
        /\ last = [op |-> "new", via |-> "api", alive |-> TRUE, animating |-> FALSE,
                   refused |-> FALSE, usage |-> None, choice |-> None,
                   result |-> s.result, trace |-> s.trace, calls |-> s.calls, returned |-> "None"]

\* one input event delivered to the application.  The handler is first run
\* with every agent waiting and then with every blow dodged, which tells how
\* many decisions and how many draws it consumes; the decisions and the draws
\* then range over all sequences of those lengths.
HandleInput ==
  /\ last.returned # "Exit"
  /\ \E input \in Inputs :
       LET op == IF is_living_character(world, player_entity)
                 THEN request_of(app_state, input) ELSE "none"
           direction == IF op = "move_player" THEN key_direction(input) ELSE "North"
           index == menu_choose(input).index
           most == Len(ai_state) + 1
           all_wait == [i \in 1..most |-> FALSE]
           all_dodge == [i \in 1..most |-> 0]
           asked == IF ai_state = <<>> \/ op = "none" THEN 0
                    ELSE most - Len(handle_input(app_state, State(<<>>, all_wait),
                                                 input).s.will)
       IN \E will \in Decisions(asked) :
            LET drawn == IF ai_state = <<>> \/ op = "none" THEN 0
                         ELSE most - Len(handle_input(app_state, State(all_dodge, will),
                                                      input).s.draws)
            IN \E draws \in RngStreams(drawn) :
                 \E h \in {handle_input(app_state, State(draws, will), input)} :
                    /\ WithinBounds(h.s)
                    /\ Commit(h.s)
                    /\ app_state' = h.app_state
                    /\ last' = Last(op, "handle_input",
                                    fails_validation(op, direction, index),
                                    IF op = "use_item"
                                         /\ inventory_get(world.inventory, index) # None
                                    THEN item_usage(inventory_get(world.inventory, index))
                                    ELSE None,
                                    None, h.s, h.returned)
                    /\ UNCHANGED <<visibility_algorithm, log_start, gen>>

\* one frame: the projectiles in flight advance (without any, nothing changes)
TickAnimations ==
  /\ last.returned # "Exit"
  /\ has_projectiles(world)
  /\ \E s \in {tick_animations(State(<<>>, <<>>))} :
        /\ WithinBounds(s)
        /\ Commit(s)
        /\ last' = Last("tick", "api", FALSE, None, None, s, "None")
        /\ UNCHANGED <<app_state, visibility_algorithm, log_start, gen>>

\* the target of an item that asked for one; the slot holds nothing or such an
\* item (the target of an empty slot is not read: one target stands for all)
UseItemAim ==
  /\ last.returned # "Exit"
  /\ is_living_character(world, player_entity)
  /\ \E inventory_index \in 0..InventoryCapacity, target \in Coords :
       /\ IF inventory_get(world.inventory, inventory_index) = None
          THEN target = <<0, 0>>
          ELSE item_usage(inventory_get(world.inventory, inventory_index)) = "Aim"
       /\ \E s \in {maybe_player_use_item_aim(State(<<>>, <<>>), inventory_index, target)} :
             /\ WithinBounds(s)
             /\ Commit(s)
             /\ last' = Last("use_item_aim", "api",
                             fails_validation("use_item_aim", "North", inventory_index),
                             None, None, s, "None")
             /\ UNCHANGED <<app_state, visibility_algorithm, log_start, gen>>

\* the player, standing on the stairs, picks a level-up and goes down
Descend ==
  /\ last.returned # "Exit"
  /\ is_living_character(world, player_entity)
  /\ is_player_on_stairs(State(<<>>, <<>>))
  /\ dungeon_level < MaxLevel
  /\ \E level_up \in LevelUp :
       \E s \in {player_level_up_and_descend(State(<<>>, <<>>), level_up)} :
          /\ Commit(s)
          /\ last' = Last("descend", "api", FALSE, None, level_up, s, "None")
          /\ UNCHANGED <<app_state, visibility_algorithm, log_start, gen>>

Next == HandleInput \/ TickAnimations \/ UseItemAim \/ Descend

Spec == Init /\ [][Next]_vars


(* ------------- the same system, started with a projectile in flight ------ *)
\* the application after a run of inputs (nobody to decide or to draw for)
RECURSIVE after_inputs(_, _, _)
after_inputs(app, s, inputs) ==
  IF inputs = <<>> THEN [app_state |-> app, s |-> s]
  ELSE LET h == handle_input(app, [s EXCEPT !.trace = <<>>, !.calls = <<>>], Head(inputs))
       IN after_inputs(h.app_state, h.s, Tail(inputs))

\* Seed 1: the player fetches the scroll and the potion, chooses the scroll in
\* the use-item menu and aims it at the far end of the row.
InFlight ==
  LET got == after_inputs("Game", GameState_new(1, "Shadowcast"),
                          <<"Left", "g", "Right", "Right", "g", "i", "a">>)
  IN [app_state |-> got.app_state,
      s |-> maybe_player_use_item_aim([got.s EXCEPT !.trace = <<>>, !.calls = <<>>], 0, <<0, 0>>)]

InitAnim ==
  /\ visibility_algorithm = "Shadowcast"
  /\ gen = NoGen
  /\ \E start \in {InFlight} :
        /\ app_state = start.app_state
        /\ world = start.s.world
        /\ player_entity = start.s.player_entity
        /\ visibility_grid = start.s.visibility_grid
        /\ ai_state = start.s.ai_state
        /\ message_log = start.s.message_log
        /\ rng = start.s.rng
        /\ dungeon_level = start.s.dungeon_level
        /\ log_start = Len(start.s.message_log)
        /\ last = [op |-> "use_item_aim", via |-> "api", alive |-> TRUE,
                   animating |-> FALSE, refused |-> FALSE, usage |-> None,
                   choice |-> None, result |-> start.s.result,
                   trace |-> start.s.trace, calls |-> start.s.calls,
                   returned |-> "None"]

SpecAnim == InitAnim /\ [][Next]_vars


(* ------------------- generate_dungeon, one step at a time ---------------- *)
\* the game that asks for a level stays as it is while the level is generated
GameAtRest ==
  /\ visibility_algorithm = "Shadowcast"
  /\ app_state = "Game"
  /\ log_start = 0
  /\ \E s \in {GameState_new(1, visibility_algorithm)} :
        /\ world = s.world
        /\ player_entity = s.player_entity
        /\ visibility_grid = s.visibility_grid
        /\ ai_state = s.ai_state
        /\ message_log = s.message_log
        /\ rng = s.rng
        /\ dungeon_level = s.dungeon_level
        /\ last = [op |-> "new", via |-> "api", alive |-> TRUE, animating |-> FALSE,
                   refused |-> FALSE, usage |-> None, choice |-> None,
                   result |-> s.result, trace |-> s.trace, calls |-> s.calls, returned |-> "None"]

game_vars == <<world, player_entity, visibility_grid, ai_state, message_log, rng,
               dungeon_level, app_state, visibility_algorithm, last, log_start>>

\* the maps generated: strictly larger than the largest room both ways
MapSizes == {Size(width, height) : width \in (MaxRoomWidth + 1)..MaxMapWidth,
                                   height \in (MaxRoomHeight + 1)..MaxMapHeight}
GenLevels == {0, 1}

\* generate_dungeon before its first placement attempt
generate_dungeon_start(size, level) ==
  [pc |-> IF NUM_ATTEMPTS > 0 THEN "rooms" ELSE "corridors",
   size |-> size, level |-> level,
   grid |-> new_copy(size, None),
   room_centers |-> <<>>,
   rooms |-> <<>>,             \* the rooms accepted, in order
   attempts |-> 0,             \* iterations of the placement loop done
   window |-> 1,               \* the pair of room centers to connect next
   carved |-> 0,               \* corridors carved
   placement |-> None,         \* what the room accepted last was given
   panic |-> None]

Panic(g, why) == [g EXCEPT !.pc = "panic", !.panic = why]

\* the end of one iteration of the placement loop
next_attempt(g) ==
  [g EXCEPT !.attempts = @ + 1,
            !.pc = IF g.attempts + 1 < NUM_ATTEMPTS THEN "rooms" ELSE "corridors"]

\* the draws of lines 48 and 52 and the grid before place_npcs, between the two
\* placements and after place_items
Placement(before, num_npcs, after_npcs, num_items, after_items) ==
  [before |-> before, num_npcs |-> num_npcs, after_npcs |-> after_npcs,
   num_items |-> num_items, after_items |-> after_items]

\* the body of the placement loop for a room that only intersects empty cells:
\* the states it may leave, over the draws of the counts, the cells and the kinds
accept_room(g, room) ==
  LET carved == carve_out(room, g.grid)
      room_center == center(room)
      spawned == IF g.room_centers = <<>>
                 THEN set_cell(carved, room_center, "Player") ELSE carved
      npcs == make_npc_probability_distribution(g.level)
      items == make_item_probability_distribution(g.level)
      with_npcs == UNION {{Placement(spawned, NPCS_PER_ROOM_DISTRIBUTION[i], grid, 0, grid) :
                             grid \in place(room, NPCS_PER_ROOM_DISTRIBUTION[i], npcs, spawned)} :
                            i \in DOMAIN NPCS_PER_ROOM_DISTRIBUTION}
      with_items == UNION {{[p EXCEPT !.num_items = ITEMS_PER_ROOM_DISTRIBUTION[i],
                                      !.after_items = grid] :
                              grid \in place(room, ITEMS_PER_ROOM_DISTRIBUTION[i], items,
                                             p.after_npcs)} :
                             p \in with_npcs, i \in DOMAIN ITEMS_PER_ROOM_DISTRIBUTION}
      grown == [g EXCEPT !.room_centers = Append(@, room_center),
                         !.rooms = Append(@, room)]
  IN IF room_center \notin DOMAIN g.grid THEN {Panic(g, "out of bounds")}
     ELSE {IF \E coord \in DOMAIN p.after_items :
                p.after_items[coord] \in {"unreachable", "empty range"}
           THEN Panic(g, "weighted selection")
           ELSE next_attempt([grown EXCEPT !.grid = p.after_items, !.placement = p]) :
             p \in with_items}

\* the sizes Room::choose draws
RoomSizes == {Size(width, height) : width \in RoomWidths, height \in RoomHeights}

\* one iteration of the placement loop (terrain.rs 33-55) with a room of one of
\* the sizes
attempt_room(sizes) ==
  /\ gen.pc = "rooms"
  /\ \E room_size \in sizes :
       LET width == room_size.width
           height == room_size.height
           top_left_bounds == Size(gen.size.width - width, gen.size.height - height)
           lefts == RangeDraws(0, top_left_bounds.width)
           tops == RangeDraws(0, top_left_bounds.height)
       IN IF lefts = {} \/ tops = {}
          THEN gen' = Panic(gen, "empty range")
          ELSE \E left \in lefts, top \in tops :
                 LET room == Room(<<left, top>>, Size(width, height))
                 IN IF ~in_grid(coords(room), gen.grid)
                    THEN gen' = Panic(gen, "out of bounds")
                    ELSE IF only_intersects_empty(room, gen.grid)
                         THEN gen' \in accept_room(gen, room)
                         ELSE gen' = next_attempt(gen)
  /\ UNCHANGED game_vars

AttemptRoom == attempt_room(RoomSizes)

\* one corridor between consecutive room centers (terrain.rs 57-59)
CarveCorridor ==
  /\ gen.pc = "corridors"
  /\ gen.window < Len(gen.room_centers)
  /\ LET start == gen.room_centers[gen.window]
         end == gen.room_centers[gen.window + 1]
     IN gen' = IF ~in_grid(corridor_cells(start, end), gen.grid)
               THEN Panic(gen, "out of bounds")
               ELSE [gen EXCEPT !.grid = carve_corridor(start, end, @),
                                !.window = @ + 1,
                                !.carved = @ + 1]
  /\ UNCHANGED game_vars

\* a mutant: the stairs go on the first room center
first_room_center(room_centers) == room_centers[1]

\* *room_centers.last().unwrap()
last_room_center(room_centers) == room_centers[Len(room_centers)]

\* the stairs on the last room center, then every unassigned cell a Wall
\* (terrain.rs 61-63)
PlaceStairs ==
  /\ gen.pc = "corridors"
  /\ gen.window >= Len(gen.room_centers)
  /\ gen' = IF gen.room_centers = <<>>
            THEN Panic(gen, "unwrap on None")
            ELSE LET last_center == last_room_center(gen.room_centers)
                     with_stairs == set_cell(gen.grid, last_center, "Stairs")
                 IN [gen EXCEPT !.pc = "done",
                                !.grid = [coord \in DOMAIN with_stairs |->
                                            IF with_stairs[coord] = None THEN "Wall"
                                            ELSE with_stairs[coord]]]
  /\ UNCHANGED game_vars

InitGen ==
  /\ GameAtRest
  /\ \E size \in MapSizes, level \in GenLevels : gen = generate_dungeon_start(size, level)

NextGen == AttemptRoom \/ CarveCorridor \/ PlaceStairs

SpecGen == InitGen /\ [][NextGen]_vars

(* ---- generate_dungeon with rooms that hold what is placed in them ------- *)
RECURSIVE largest(_)
largest(counts) ==
  IF counts = <<>> THEN 0 ELSE Max(Head(counts), largest(Tail(counts)))

\* the Floor cells carve_out leaves in a room of the size
floor_cells(size) == (size.width - 1) * (size.height - 1)

\* the room sizes with a Floor cell for the player, for the most NPCs and for
\* the most items drawn, as every room of the program has: at least 4 * 4
\* Floor cells for 1 + 4 + 2
FurnishedRoomSizes ==
  {size \in RoomSizes :
     floor_cells(size) >= 1 + largest(NPCS_PER_ROOM_DISTRIBUTION)
                            + largest(ITEMS_PER_ROOM_DISTRIBUTION)}

\* a map two of the largest rooms fit in side by side
FurnishedMapSize == Size(2 * MaxRoomWidth + 1, MaxRoomHeight + 1)

AttemptFurnishedRoom == attempt_room(FurnishedRoomSizes)

InitFurnished ==
  /\ GameAtRest
  /\ \E level \in GenLevels : gen = generate_dungeon_start(FurnishedMapSize, level)

NextFurnished == AttemptFurnishedRoom \/ CarveCorridor \/ PlaceStairs

SpecFurnished == InitFurnished /\ [][NextFurnished]_vars

(* ------------- choose_from_probability_distribution, one call ------------ *)
\* the kinds the entries of a list hold, in the order of the list
EntryKinds == <<"Orc", "Troll", "HealthPotion", "FireballScroll", "ConfusionScroll",
                "Sword", "Staff", "Armor", "Robe">>

\* the lists selected from: every list of up to MaxEntries entries with weights
\* up to MaxWeight, and the lists the generator builds; total weight above 0
Distributions ==
  UNION {{[i \in 1..n |-> Entry(EntryKinds[i], weights[i])] :
            weights \in [1..n -> 0..MaxWeight]} :
         n \in 1..Min(MaxEntries, Len(EntryKinds))}
    \cup {make_npc_probability_distribution(level) : level \in GenLevels}
    \cup {item_probability_distribution(level) : level \in GenLevels}

InitWeighted ==
  /\ GameAtRest
  /\ \E dist \in Distributions :
        /\ distribution_sum(dist) > 0
        /\ \E choice \in RangeDraws(0, distribution_sum(dist)) :
              gen = [pc |-> "choose", dist |-> dist, choice |-> choice, result |-> None]

\* one call of choose_from_probability_distribution with its draw
Choose ==
  /\ gen.pc = "choose"
  /\ gen' = [gen EXCEPT !.pc = "chosen",
                        !.result = choose_from_probability_distribution(gen.dist, gen.choice)]
  /\ UNCHANGED game_vars

NextWeighted == Choose

SpecWeighted == InitWeighted /\ [][NextWeighted]_vars

(* ------------------------------ properties ------------------------------ *)
Events(trace, ev) == {i \in 1..Len(trace) : trace[i].ev = ev}
AiPhases(trace) == Cardinality(Events(trace, "ai_turn"))
player_hp == world.chars[player_entity].hp
player_at == world.chars[player_entity].coord
Npcs == {e \in DOMAIN world.chars : world.chars[e].kind # "Player"}

\* C1: a move_player request that fails validation (wall, edge of the map)
\* runs no AI phase.
C1_BlockedMoveRunsNoAiPhase ==
  (last.op = "move_player" /\ last.refused) => AiPhases(last.trace) = 0

\* C2: while a projectile is in flight no request is accepted: the world (with
\* the player's inventory) and the agent table stay as they are and no AI phase
\* runs.
C2_NoRequestAcceptedWhileAnimating ==
  [][(has_projectiles(world) /\ last'.op \in Requests)
       => /\ world' = world
          /\ ai_state' = ai_state
          /\ AiPhases(last'.trace) = 0]_vars

C4_RejectedRequestIsLogged ==
  [][(/\ last'.op \in TurnRequests
      /\ last'.refused \/ (has_projectiles(world) /\ last'.op # "drop_item"))
       => Len(message_log') > Len(message_log)]_vars

\* C5: a request that consumes a turn is followed by exactly one AI phase and
\* then one visibility refresh, both within the handling of that input.
ConsumesTurn ==
  /\ last.via = "handle_input"
  /\ \/ last.op \in {"move_player", "get_item"} /\ ~last.refused /\ ~last.animating
     \/ last.op = "wait" /\ ~last.animating
     \/ last.op = "use_item" /\ last.result = "Immediate"
     \/ last.op = "drop_item" /\ ~last.refused

C5_TurnThenAiPhaseThenVisibility ==
  ConsumesTurn =>
    /\ Events(last.trace, "ai_turn") = {1}
    /\ Events(last.trace, "update_visibility") = {Len(last.trace)}

C5_Witness ==
  /\ ConsumesTurn
  /\ Events(last.trace, "act") # {}

\* C6: a successful use_item returns the usage kind of the item; it runs exactly
\* one AI phase when that is Immediate and none when it is Aim.
C6_UseItemTurn ==
  (last.op = "use_item" /\ last.result # "Err") =>
    /\ last.result = last.usage
    /\ last.result \in ItemUsage
    /\ AiPhases(last.trace) = (IF last.usage = "Immediate" THEN 1 ELSE 0)

C6_Witness == last.op = "use_item" /\ last.result = "Aim"

\* C7: no agent of a dead entity is asked for an action; after an AI phase the
\* agent table holds living characters only; an agent leaves the table of its
\* level only when its entity is dead, and an entity that is not in the table
\* never enters it.
C7_DeadAgentsArePruned ==
  [][/\ \A i \in Events(last'.trace, "act") : last'.trace[i].alive
     /\ AiPhases(last'.trace) > 0
          => \A e \in Range(ai_state') : is_living_character(world', e)
     /\ \A e \in Npcs :
          /\ e \notin Range(ai_state) => e \notin Range(ai_state')
          /\ (e \in Range(ai_state) /\ e \notin Range(ai_state')
                /\ dungeon_level' = dungeon_level) => ~is_living_character(world', e)
     /\ Len(ai_state') = Cardinality(Range(ai_state'))]_vars

C7_Witness ==
  /\ AiPhases(last.trace) > 0
  /\ \E e \in Npcs : ~is_living_character(world, e) /\ e \notin Range(ai_state)
  /\ Range(ai_state) # {}

\* C8 as stated: a cell that is Previously is never Never afterwards.
C8_SeenCellNeverForgotten ==
  [][\A c \in Coords :
       visibility_grid[c] = "Previously" => visibility_grid'[c] # "Never"]_vars

\* C8 as amended: on one level a cell that is Previously is never Never
\* afterwards; the level transition clears the grid, every cell is Never again.
C8_SeenCellForgottenOnlyOnDescent ==
  [][IF last'.op = "descend"
     THEN \A c \in Coords : visibility_grid'[c] = "Never"
     ELSE \A c \in Coords :
            visibility_grid[c] = "Previously" => visibility_grid'[c] # "Never"]_vars

C8_Witness ==
  /\ last.op \in TurnRequests
  /\ \E c \in Coords : visibility_grid[c] = "Previously"

\* C9: the message log only grows: the log before any operation is a prefix of
\* the log after it.
C9_LogIsAppendOnly == [][IsPrefix(message_log, message_log')]_vars

C9_Witness == last.op = "descend" /\ Len(message_log) > 0

\* C10: the level transition raises the dungeon level by one, leaves a freshly
\* generated world in which the new player entity carries the old one's hit
\* points, inventory and stats plus the chosen level-up, and an agent table
\* that is exactly the new level's.
C10_LevelTransition ==
  [][last'.op = "descend" =>
       LET old == world.chars[player_entity]
           new == world'.chars[player_entity']
           fresh == populate(dungeon_level + 1, rng)
           up(stat) == IF last'.choice = stat THEN 1 ELSE 0
       IN /\ dungeon_level' = dungeon_level + 1
          /\ player_entity' = fresh.player_entity
          /\ player_entity' # player_entity
          /\ DOMAIN world'.chars = DOMAIN fresh.world.chars
          /\ \A e \in DOMAIN world'.chars \ {player_entity'} :
               world'.chars[e] = fresh.world.chars[e]
          /\ world'.walls = fresh.world.walls /\ world'.items = fresh.world.items
          /\ world'.projectiles = {}
          /\ new.coord = fresh.world.chars[player_entity'].coord
          /\ new.hp = old.hp
          /\ new.max_hp = old.max_hp + up("Health")
          /\ new.strength = old.strength + up("Strength")
          /\ new.dexterity = old.dexterity + up("Dexterity")
          /\ new.intelligence = old.intelligence + up("Intelligence")
          /\ world'.inventory = world.inventory
          /\ ai_state' = fresh.ai_state
          /\ Range(ai_state') \cap DOMAIN world.chars = {}
          /\ \A e \in Range(ai_state') : is_living_character(world', e)]_vars

C10_Witness ==
  /\ last.op = "descend"
  /\ dungeon_level = 2
  /\ Range(ai_state) # {}
  /\ last.choice = "Health"
  /\ world.chars[player_entity].max_hp = 3


\* C16: examine_cell describes a cell only when the cell is Currently visible;
\* for a cell that is Previously or Never it returns None, whatever is there.
C16_ExamineOnlyCurrentlyVisible ==
  \A coord \in Coords :
    visibility_grid[coord] # "Currently" => examine_cell(State(<<>>, <<>>), coord) = None

C16_Witness ==
  /\ \E coord \in Coords :
       /\ visibility_grid[coord] = "Previously"
       /\ world_examine_cell(world, coord) # None
       /\ examine_cell(State(<<>>, <<>>), coord) = None
  /\ \E coord \in Coords :
       /\ visibility_grid[coord] = "Currently"
       /\ examine_cell(State(<<>>, <<>>), coord) \in {"Npc", "NpcCorpse", "Item"}

\* C17: within one turn the player's action is resolved before the AI phase:
\* the entries the operation appends to the log are first those of the player's
\* action, all of them in the log when the AI phase starts, then those of the
\* NPCs' actions, none of them in the log before the NPC was asked.
PlayerEntries == {"PlayerAttacksNpc", "PlayerKillsNpc", "NpcDodges", "PlayerGets",
                  "PlayerHeals", "PlayerDrops"}
NpcEntries == {"NpcAttacksPlayer", "NpcKillsPlayer", "PlayerDodges"}

C17_PlayerActionBeforeAiPhase ==
  [][AiPhases(last'.trace) > 0 =>
       LET trace == last'.trace
           started == trace[CHOOSE i \in Events(trace, "ai_turn") : TRUE].at
           asked == {trace[i].at : i \in Events(trace, "act")}
       IN /\ Len(message_log) <= started /\ started <= Len(message_log')
          /\ \A i \in (Len(message_log) + 1)..started : message_log'[i] \in PlayerEntries
          /\ \A i \in (started + 1)..Len(message_log') :
               /\ message_log'[i] \in NpcEntries
               /\ \E at \in asked : at < i
          /\ \A at \in asked : started <= at]_vars

C17_Witness ==
  /\ last.op = "move_player"
  /\ Events(last.trace, "act") # {}
  /\ Len(message_log) = 2
  /\ message_log[1] \in PlayerEntries
  /\ message_log[2] \in NpcEntries
  /\ last.trace[1].at = 1


(* ------------------------- dungeon generation --------------------------- *)
Rooms == DOMAIN gen.rooms
Cardinal == {<<0, -1>>, <<1, 0>>, <<0, 1>>, <<-1, 0>>}
adjacent(a, b) == \E d \in Cardinal : b = <<a[1] + d[1], a[2] + d[2]>>
cells_with(grid, tiles) == {coord \in DOMAIN grid : grid[coord] \in tiles}

\* C18: a room is accepted only if every cell it would occupy is unassigned at
\* the time of the attempt; so at every point of generation the accepted rooms
\* are pairwise disjoint and each lies entirely inside the grid.
C18_RoomAcceptedOnlyOverUnassignedCells ==
  [][/\ Len(gen'.rooms) > Len(gen.rooms) =>
          /\ Len(gen'.rooms) = Len(gen.rooms) + 1
          /\ \A coord \in coords(gen'.rooms[Len(gen'.rooms)]) :
                coord \in DOMAIN gen.grid /\ gen.grid[coord] = None
     /\ \A i, j \in DOMAIN gen'.rooms :
          /\ coords(gen'.rooms[i]) \subseteq DOMAIN gen'.grid
          /\ i # j => coords(gen'.rooms[i]) \cap coords(gen'.rooms[j]) = {}]_vars

\* two rooms accepted side by side and one attempt turned down
C18_Witness ==
  /\ gen.pc = "corridors"
  /\ Len(gen.rooms) = 2
  /\ gen.attempts = 3
  /\ gen.rooms[2].top_left[1] = gen.rooms[1].top_left[1] + gen.rooms[1].size.width

\* the rooms are all carved and no corridor is yet
BeforeCorridors == gen.pc = "rooms" \/ (gen.pc = "corridors" /\ gen.carved = 0)

\* C19: carving makes a room's top row and left column Wall and every other
\* cell of it Floor (a Floor cell may then receive the player, an NPC or an
\* item); so before any corridor is carved no non-Wall cell of one accepted room
\* is cardinally adjacent to a non-Wall cell of another, even when they abut.
C19_CarvedRoomsDoNotMerge ==
  BeforeCorridors =>
    /\ \A i \in Rooms : \A coord \in coords(gen.rooms[i]) :
          IF coord[1] = gen.rooms[i].top_left[1] \/ coord[2] = gen.rooms[i].top_left[2]
          THEN gen.grid[coord] = "Wall"
          ELSE gen.grid[coord] \in TerrainTile \ {"Wall", "Stairs"}
    /\ \A i, j \in Rooms : i # j =>
          \A a \in coords(gen.rooms[i]), b \in coords(gen.rooms[j]) :
             adjacent(a, b) => gen.grid[a] = "Wall" \/ gen.grid[b] = "Wall"

\* two accepted rooms abut: an open cell of one next to a cell of the other
C19_Witness ==
  /\ gen.pc = "corridors"
  /\ gen.carved = 0
  /\ \E i, j \in Rooms :
        /\ i # j
        /\ \E a \in coords(gen.rooms[i]), b \in coords(gen.rooms[j]) :
              adjacent(a, b) /\ gen.grid[a] # "Wall"

\* the corridor carved last joins these two room centers
corridor_start == gen.room_centers[gen.window - 1]
corridor_end == gen.room_centers[gen.window]
between(i, a, b) == Min(a, b) <= i /\ i <= Max(a, b)

\* C20: carve_corridor(start, end) changes only cells that are unassigned or
\* Wall, only on start's row between the two x coordinates or on end's column
\* between the two y coordinates, and turns them into Floor; a cell that is
\* Floor, Player, an NPC, an item or Stairs is left as it is.
C20_CorridorOnlyOpensWallsOnItsPath ==
  [][gen.pc = "corridors" /\ gen'.carved = gen.carved + 1 =>
       LET start == gen.room_centers[gen.window]
           end == gen.room_centers[gen.window + 1]
       IN \A coord \in DOMAIN gen.grid :
            /\ gen.grid[coord] \notin {None, "Wall"} => gen'.grid[coord] = gen.grid[coord]
            /\ gen'.grid[coord] # gen.grid[coord] =>
                 /\ gen'.grid[coord] = "Floor"
                 /\ \/ coord[2] = start[2] /\ between(coord[1], start[1], end[1])
                    \/ coord[1] = end[1] /\ between(coord[2], start[2], end[2])]_vars

\* a corridor with a bend was carved: it opened the wall of a room and passed
\* over the player's cell and over a cell that holds an NPC or an item
C20_Witness ==
  /\ gen.pc = "corridors"
  /\ gen.carved = 1
  /\ corridor_start[1] # corridor_end[1]
  /\ corridor_start[2] # corridor_end[2]
  /\ gen.grid[corridor_start] = "Player"
  /\ \E coord \in corridor_cells(corridor_start, corridor_end) :
        gen.grid[coord] \in NpcType \cup ItemType
  /\ \E coord \in corridor_cells(corridor_start, corridor_end), i \in Rooms :
        /\ coord \in coords(gen.rooms[i])
        /\ coord[1] = gen.rooms[i].top_left[1] \/ coord[2] = gen.rooms[i].top_left[2]
        /\ gen.grid[coord] = "Floor"

\* the cells reached from the cells seen by steps between cardinally adjacent
\* cells that are not Wall
RECURSIVE flood(_, _)
flood(grid, seen) ==
  LET more == {coord \in DOMAIN grid \ seen :
                 grid[coord] # "Wall" /\ \E s \in seen : adjacent(s, coord)}
  IN IF more = {} THEN seen ELSE flood(grid, seen \cup more)

spawn == gen.room_centers[1]

\* C11: in a generated dungeon with at least two accepted rooms, every Floor or
\* Stairs cell is reachable from the player spawn cell by a path of cardinally
\* adjacent non-Wall cells.
C11_OpenCellsReachableFromSpawn ==
  gen.pc = "done" /\ Len(gen.rooms) >= 2 =>
    /\ gen.grid[spawn] = "Player"
    /\ cells_with(gen.grid, {"Floor", "Stairs"}) \subseteq flood(gen.grid, {spawn})

\* three rooms joined by two corridors with a bend each, one of them running
\* up to the room it ends in, over cells outside every room
C11_Witness ==
  /\ gen.pc = "done"
  /\ Len(gen.rooms) = 3
  /\ \A w \in 1..2 : /\ gen.room_centers[w][1] # gen.room_centers[w + 1][1]
                      /\ gen.room_centers[w][2] # gen.room_centers[w + 1][2]
  /\ \E w \in 1..2 : gen.room_centers[w][2] > gen.room_centers[w + 1][2]
  /\ \E coord \in cells_with(gen.grid, {"Floor"}) :
        \A i \in Rooms : coord \notin coords(gen.rooms[i])
  /\ cells_with(gen.grid, {"Stairs"}) = {gen.room_centers[3]}

\* C12: when the placement attempts accept exactly one room, generation
\* completes without panicking, carves no corridor, and the resulting grid
\* contains exactly one Player spawn cell.
C12_SingleRoomKeepsItsSpawn ==
  Len(gen.rooms) = 1 /\ gen.attempts = NUM_ATTEMPTS =>
    /\ gen.pc # "panic"
    /\ gen.carved = 0
    /\ gen.pc = "done" => Cardinality(cells_with(gen.grid, {"Player"})) = 1

\* C13: on a grid strictly larger than the largest room both ways and for
\* every RNG stream, generate_dungeon terminates without panicking: no sampled
\* range is empty, no grid access is out of bounds, the unreachable branch of
\* weighted selection is not taken, the first attempt is accepted so that the
\* room centers are not empty when the stairs are placed, and both loops are
\* bounded with a next step until the dungeon is done.
C13_GenerationNeverPanics ==
  /\ gen.pc \in {"rooms", "corridors", "done"}
  /\ gen.panic = None
  /\ gen.attempts >= 1 => Len(gen.room_centers) >= 1
  /\ gen.attempts <= NUM_ATTEMPTS
  /\ Len(gen.room_centers) <= gen.attempts
  /\ gen.window <= Max(1, Len(gen.room_centers))
  /\ gen.pc = "rooms" => gen.attempts < NUM_ATTEMPTS /\ ENABLED AttemptRoom
  /\ gen.pc = "corridors" => gen.attempts = NUM_ATTEMPTS /\ ENABLED (CarveCorridor \/ PlaceStairs)

\* a finished dungeon of level 0 (trolls have weight 0) in which an NPC and an
\* item were drawn and a largest room sits as far right and down as it can
C13_Witness ==
  /\ gen.pc = "done"
  /\ gen.level = 0
  /\ cells_with(gen.grid, NpcType) # {}
  /\ cells_with(gen.grid, ItemType) # {}
  /\ \E i \in Rooms :
        /\ gen.rooms[i].size = Size(MaxRoomWidth, MaxRoomHeight)
        /\ gen.rooms[i].top_left[1] + MaxRoomWidth = gen.size.width - 1
        /\ gen.rooms[i].top_left[2] + MaxRoomHeight = gen.size.height - 1

(* -------------------------- weighted selection ------------------------- *)
\* the total weight of the first i entries
cumulative(dist, i) == distribution_sum(SubSeq(dist, 1, i))

\* C15: for a list of (kind, weight) pairs with total weight above 0 and a draw
\* r below the total, weighted selection returns the first entry whose
\* cumulative weight exceeds r: the result is an entry of the list, a list of
\* one entry returns that entry, and an entry of weight 0 is never returned.
C15_SelectsFirstEntryPastTheDraw ==
  gen.pc = "chosen" =>
    \E i \in DOMAIN gen.dist :
      /\ cumulative(gen.dist, i) > gen.choice
      /\ \A j \in 1..(i - 1) : cumulative(gen.dist, j) <= gen.choice
      /\ gen.result = gen.dist[i].value
      /\ gen.dist[i].probability > 0
      /\ Len(gen.dist) = 1 => i = 1
      /\ \A j \in DOMAIN gen.dist :
            gen.dist[j].probability = 0 => gen.result # gen.dist[j].value

\* the draw equals the weight of the first entry, the second entry has weight
\* 0 and the third is returned
C15_Witness ==
  /\ gen.pc = "chosen"
  /\ Len(gen.dist) = 3
  /\ gen.dist[1].probability > 0
  /\ gen.dist[2].probability = 0
  /\ gen.choice = gen.dist[1].probability
  /\ gen.result = gen.dist[3].value

(* ------------------------- contents of a room --------------------------- *)
changed(before, after) == {coord \in DOMAIN before : after[coord] # before[coord]}
counts(distribution) == {distribution[i] : i \in DOMAIN distribution}

\* C21: an accepted room gets exactly the number of NPCs drawn and then exactly
\* the number of items drawn, each on a cell of its own that belongs to the room
\* and was Floor at the moment of placement; so no placement overwrites the
\* Player cell, a Wall or an NPC or item placed before, nor touches a cell
\* outside the room.
C21_RoomGetsTheDrawnNpcsAndItems ==
  [][Len(gen'.rooms) > Len(gen.rooms) =>
       LET room == gen'.rooms[Len(gen'.rooms)]
           p == gen'.placement
           npcs == changed(p.before, p.after_npcs)
           items == changed(p.after_npcs, p.after_items)
       IN /\ p.num_npcs \in counts(NPCS_PER_ROOM_DISTRIBUTION)
          /\ p.num_items \in counts(ITEMS_PER_ROOM_DISTRIBUTION)
          /\ Cardinality(npcs) = p.num_npcs
          /\ Cardinality(items) = p.num_items
          /\ \A coord \in npcs : /\ coord \in coords(room)
                                  /\ p.before[coord] = "Floor"
                                  /\ p.after_npcs[coord] \in NpcType
          /\ \A coord \in items : /\ coord \in coords(room)
                                   /\ p.after_npcs[coord] = "Floor"
                                   /\ p.after_items[coord] \in ItemType
          /\ p.after_items = gen'.grid
          /\ \A coord \in DOMAIN gen.grid :
                coord \notin coords(room) => gen'.grid[coord] = gen.grid[coord]
          /\ Len(gen.rooms) = 0 => gen'.grid[center(room)] = "Player"]_vars

\* a second room was accepted and got the most NPCs and the most items drawn,
\* the first room holding the player, an NPC and an item
C21_Witness ==
  /\ Len(gen.rooms) = 2
  /\ gen.placement.num_npcs = largest(NPCS_PER_ROOM_DISTRIBUTION)
  /\ gen.placement.num_items = largest(ITEMS_PER_ROOM_DISTRIBUTION)
  /\ \E a, b \in coords(gen.rooms[1]) : gen.grid[a] \in NpcType /\ gen.grid[b] \in ItemType
  /\ gen.grid[gen.room_centers[1]] = "Player"
  /\ Cardinality(cells_with(gen.grid, NpcType) \cap coords(gen.rooms[2])) = 2
  /\ Cardinality(cells_with(gen.grid, ItemType) \cap coords(gen.rooms[2])) = 1

\* C22: the generated grid has exactly one Stairs cell, at the center of the
\* room accepted last, and no Stairs before it is finished; the Player marker
\* is written only at the center of the room accepted first, when that room is
\* accepted.
C22_StairsOnLastCenterPlayerOnFirst ==
  [][/\ \A coord \in DOMAIN gen.grid :
          gen'.grid[coord] = "Player" /\ gen.grid[coord] # "Player" =>
            /\ gen.rooms = <<>>
            /\ Len(gen'.rooms) = 1
            /\ coord = center(gen'.rooms[1])
     /\ cells_with(gen'.grid, {"Stairs"}) =
          IF gen'.pc = "done" THEN {center(gen'.rooms[Len(gen'.rooms)])} ELSE {}
     /\ gen'.room_centers = [i \in DOMAIN gen'.rooms |-> center(gen'.rooms[i])]]_vars

\* a finished dungeon of three rooms: the player on the first center, and the
\* stairs on the third, where an NPC had been placed
C22_Witness ==
  /\ gen.pc = "done"
  /\ Len(gen.rooms) = 3
  /\ gen.grid[center(gen.rooms[1])] = "Player"
  /\ gen.grid[center(gen.rooms[3])] = "Stairs"
  /\ gen.placement.after_items[center(gen.rooms[3])] \in NpcType

(* ------------------------------ AI phase -------------------------------- *)
Calls(calls, op) == {i \in 1..Len(calls) : calls[i].op = op}
Asked(calls) == [i \in 1..Cardinality(Calls(calls, "act")) |->
                   calls[CHOOSE k \in Calls(calls, "act") :
                           Cardinality({j \in Calls(calls, "act") : j <= k}) = i].who]

\* C23: in an AI phase every agent whose entity is a living character when the
\* phase starts is asked for exactly one action, Wait or a move in a direction,
\* in the order of the agent table, and none is asked twice; a move is applied
\* by the call of maybe_move_character that also applies the player's move.
C23_EachLivingAgentActsOnceInTableOrder ==
  [][AiPhases(last'.trace) > 0 =>
       LET calls == last'.calls
           Living(e) == is_living_character(world', e)
       IN /\ AiPhases(last'.trace) = 1
          /\ Asked(calls) = SelectSeq(ai_state, Living)
          /\ Asked(calls) = ai_state'
          /\ \A i, j \in Calls(calls, "act") : i # j => calls[i].who # calls[j].who
          /\ \A i \in Events(last'.trace, "act") : last'.trace[i].alive
          /\ \A i \in Calls(calls, "act") :
                /\ calls[i].action \in {"Wait"} \cup CardinalDirection
                /\ calls[i].action # "Wait" =>
                     /\ i < Len(calls)
                     /\ calls[i + 1] = [op |-> "maybe_move_character",
                                        who |-> calls[i].who, action |-> calls[i].action]
          /\ \A i \in Calls(calls, "maybe_move_character") :
                IF calls[i].who = player_entity
                THEN i = 1 /\ last'.op = "move_player"
                ELSE i > 1 /\ calls[i - 1].op = "act" /\ calls[i - 1].who = calls[i].who]_vars

\* after the player's move two agents were asked in turn; one of them answered
\* with a move, which struck the player
C23_Witness ==
  /\ last.op = "move_player"
  /\ Len(ai_state) = 2
  /\ Asked(last.calls) = ai_state
  /\ last.calls[1].who = player_entity
  /\ \E i \in Calls(last.calls, "maybe_move_character") : last.calls[i].who # player_entity
  /\ message_log # <<>>
  /\ message_log[Len(message_log)] \in NpcEntries

(* --------------------------- edge of the map ---------------------------- *)
boundary(size) == {coord \in GridCoords(size) :
                     \/ coord[1] \in {0, size.width - 1}
                     \/ coord[2] \in {0, size.height - 1}}

\* C24: every cell of the outermost rows and columns of a generated grid is
\* Wall; while the grid is generated such a cell is Wall or unassigned, so no
\* room interior, corridor, NPC, item, Player or Stairs lies on the boundary.
C24_BoundaryIsWall ==
  \A coord \in boundary(gen.size) :
    gen.grid[coord] \in (IF gen.pc = "done" THEN {"Wall"} ELSE {"Wall", None})

\* a finished dungeon with a room in the top-left corner of the map, a room
\* reaching as far right and a room reaching as far down as rooms go, and a
\* corridor cell next to the boundary outside every room
C24_Witness ==
  /\ gen.pc = "done"
  /\ \E i \in Rooms : gen.rooms[i].top_left = <<0, 0>>
  /\ \E i \in Rooms : gen.rooms[i].top_left[1] + gen.rooms[i].size.width = gen.size.width - 1
  /\ \E i \in Rooms : gen.rooms[i].top_left[2] + gen.rooms[i].size.height = gen.size.height - 1
  /\ \E coord \in cells_with(gen.grid, {"Floor"}) :
        /\ \A i \in Rooms : coord \notin coords(gen.rooms[i])
        /\ \E b \in boundary(gen.size) : adjacent(coord, b)

(* ---------------------------- aimed item use ---------------------------- *)
NobodyAsked(l) == AiPhases(l.trace) = 0 /\ Events(l.trace, "act") = {} /\ l.calls = <<>>

\* C25: use_item_aim runs no AI phase, whether it succeeds or fails; a complete
\* aimed use, use_item returning Aim and then use_item_aim, ends without any
\* NPC having been asked for an action, and the agent table is as it was.
C25_AimedUseRunsNoAiPhase ==
  [][last'.op = "use_item_aim" =>
       /\ NobodyAsked(last')
       /\ ai_state' = ai_state
       /\ (last.op = "use_item" /\ last.result = "Aim") => NobodyAsked(last)]_vars

\* use_item_aim launched a projectile on a level with agents
C25_Witness ==
  /\ last.op = "use_item_aim"
  /\ ~last.refused
  /\ last.result = "Ok"
  /\ has_projectiles(world)
  /\ ai_state # <<>>

(* --------------------------- after the player died ----------------------- *)
\* C26: once the player is not alive every input handled by the application is
\* ignored: no request reaches the game state, the app mode stays, visibility
\* is not refreshed and Exit is not returned, whatever the input, Escape included.
C26_InputIgnoredOncePlayerIsDead ==
  [][(~is_living_character(world, player_entity) /\ last'.via = "handle_input") =>
       /\ last'.returned = "None"
       /\ last'.trace = <<>>
       /\ last'.calls = <<>>
       /\ app_state' = app_state
       /\ world' = world
       /\ visibility_grid' = visibility_grid
       /\ ai_state' = ai_state
       /\ message_log' = message_log
       /\ rng' = rng
       /\ dungeon_level' = dungeon_level]_vars

\* an input was handled after an NPC had killed the player
C26_Witness ==
  /\ ~is_living_character(world, player_entity)
  /\ last.via = "handle_input"
  /\ ~last.alive
  /\ last.returned = "None"
  /\ message_log # <<>>
  /\ message_log[Len(message_log)] \in NpcEntries

(* -------------------------------- menus --------------------------------- *)
Menus == {"UseItem", "DropItem"}

\* C27: while the application is in a Menu mode no move, wait or get-item
\* request reaches the game state; the mode returns to Game only on Escape,
\* with no request, or when the use or drop request for the chosen slot
\* succeeds, and a failed use or drop leaves the application in its Menu mode.
C27_MenuModeOnlyUsesOrDrops ==
  [][(app_state \in Menus /\ last'.via = "handle_input") =>
       /\ last'.op \in {"none", IF app_state = "UseItem" THEN "use_item" ELSE "drop_item"}
       /\ app_state' \in {app_state, "Game"}
       /\ last'.op = "none" =>
            /\ world' = world /\ message_log' = message_log /\ ai_state' = ai_state
            /\ AiPhases(last'.trace) = 0 /\ last'.calls = <<>>
       /\ last'.op # "none" => (app_state' = "Game" <=> last'.result # "Err")
       /\ last'.result = "Err" => /\ app_state' = app_state
                                  /\ AiPhases(last'.trace) = 0
       /\ AiPhases(last'.trace) > 0 => app_state' = "Game"
       /\ \A input \in Inputs :
            (menu_choose(input).kind # "Ok" /\ is_living_character(world, player_entity)) =>
              \E h \in {handle_input(app_state, State(<<>>, <<>>), input)} :
                 /\ h.app_state = (IF input = "Escape" THEN "Game" ELSE app_state)
                 /\ h.returned = "None"
                 /\ h.s.world = world
                 /\ h.s.calls = <<>>
                 /\ AiPhases(h.s.trace) = 0]_vars

\* a drop refused in the drop menu, which stays open, with an item in the
\* other slot
C27_Witness ==
  /\ app_state = "DropItem"
  /\ last.via = "handle_input"
  /\ last.op = "drop_item"
  /\ last.result = "Err"
  /\ \E i \in DOMAIN world.inventory : world.inventory[i] # None

====
